---- MODULE Spec2Model ----
(***************************************************************************)
(* A model of scripts/stargazer.py: the nested-value extractor             *)
(* json_extract, the sky-forecast aggregation loop of                      *)
(* get_5_day_sky_forecast, the selector find_stargazing_dates and the      *)
(* entry point handler.                                                    *)
(*                                                                         *)
(* Calendar dates are day numbers counted from today (0 = today); a        *)
(* timestamp "DATE T HH:00:00Z" is the record [date, tod] and split('T')   *)
(* takes it apart.  An average sum/len is kept as the exact fraction       *)
(* [num, den].  A JSON value is a node [t, v, items]: a scalar ("s", with  *)
(* its value v), a mapping ("d", items = <<key, node>> pairs in iteration  *)
(* order) or a sequence ("l", items = <<ListIdx, node>> pairs).            *)
(***************************************************************************)
EXTENDS Integers, Sequences, FiniteSets, TLC

VARIABLES
    illum,            \* phase*100 for today .. today+5, as the ephemeris gives it
    hourly,           \* the hourly samples the weather provider will return
    pc,               \* position of the run
    error,            \* the exception that ended the run, "" if none
    net_calls,        \* the network calls issued so far, in order
    printed,          \* TRUE once 'No upcoming stargazing dates!' was printed
    moon,             \* find_stargazing_dates: moon
    new_moons,        \* find_stargazing_dates: new_moons (0-based indices)
    new_moon_dates,   \* find_stargazing_dates: new_moon_dates
    sky,              \* find_stargazing_dates: sky
    stargazing_dates, \* find_stargazing_dates: stargazing_dates / handler: forecast
    sky_list,         \* get_5_day_sky_forecast: sky_list
    idx,              \* get_5_day_sky_forecast: position of the for loop in sky_list
    first_day,        \* get_5_day_sky_forecast: first_day
    prev_day,         \* get_5_day_sky_forecast: prev_day
    target_day,       \* get_5_day_sky_forecast: target_day
    vis_list,         \* get_5_day_sky_forecast: vis_list
    cover_list,       \* get_5_day_sky_forecast: cover_list
    sky_dict,         \* get_5_day_sky_forecast: sky_dict, in insertion order
    x_obj,            \* json_extract: obj
    x_key,            \* json_extract: key
    x_values,         \* json_extract: values
    x_pc              \* json_extract: "call" before, "returned" after

pipeline_vars == <<illum, hourly, pc, error, net_calls, printed, moon, new_moons,
                   new_moon_dates, sky, stargazing_dates, sky_list, idx, first_day,
                   prev_day, target_day, vis_list, cover_list, sky_dict>>
extract_vars == <<x_obj, x_key, x_values, x_pc>>
vars == <<pipeline_vars, extract_vars>>

(***************************************************************************)
(* Bounds of the model.                                                    *)
(***************************************************************************)
MaxDays == 3       \* calendar dates 0 .. MaxDays-1 in the enumerated timelines
MaxSamples == 4    \* samples in an enumerated timeline
MaxWidth == 2      \* items in a container of an enumerated JSON structure

(***************************************************************************)
(* Program constants.                                                      *)
(***************************************************************************)
start_hour == 6
end_hour == 13
MoonDays == 6
illum_threshold == 2
vis_threshold == 20
cover_threshold == 5
NoDay == -1        \* Python's None where a date is expected

(***************************************************************************)
(* JSON values and json_extract.                                           *)
(***************************************************************************)
ListIdx == ""
Scalar(v) == [t |-> "s", v |-> v, items |-> <<>>]
Dict(items) == [t |-> "d", v |-> 0, items |-> items]
List(elems) == [t |-> "l", v |-> 0, items |-> [i \in 1..Len(elems) |-> <<ListIdx, elems[i]>>]]

IsContainer(v) == v.t \in {"d", "l"}

RECURSIVE extract(_, _, _), extract_dict_items(_, _, _), extract_list_items(_, _, _)

\* One round of `for k, v in obj.items()` and the rounds after it.
MutKeyFirst_extract_dict_items(items, arr, key) ==
    IF Len(items) = 0 THEN arr
    ELSE LET k == Head(items)[1]
             v == Head(items)[2]
             arr1 == IF k = key THEN Append(arr, v)
                     ELSE IF IsContainer(v) THEN extract(v, arr, key)
                     ELSE arr
         IN  extract_dict_items(Tail(items), arr1, key)

extract_dict_items(items, arr, key) ==
    IF Len(items) = 0 THEN arr
    ELSE LET k == Head(items)[1]
             v == Head(items)[2]
             arr1 == IF IsContainer(v) THEN extract(v, arr, key)
                     ELSE IF k = key THEN Append(arr, v)
                     ELSE arr
         IN  extract_dict_items(Tail(items), arr1, key)

\* One round of `for item in obj` and the rounds after it.
extract_list_items(items, arr, key) ==
    IF Len(items) = 0 THEN arr
    ELSE extract_list_items(Tail(items), extract(Head(items)[2], arr, key), key)

extract(obj, arr, key) ==
    IF obj.t = "d" THEN extract_dict_items(obj.items, arr, key)
    ELSE IF obj.t = "l" THEN extract_list_items(obj.items, arr, key)
    ELSE arr

json_extract(obj, key) == extract(obj, <<>>, key)

(***************************************************************************)
(* Timestamps, averages and the insertion-ordered sky_dict.                *)
(***************************************************************************)
\* day.split('T'): <<the date, the time of day>>; tod h stands for "hh:00:00Z"
split(ts) == <<ts.date, ts.tod>>

\* [f'{i:02d}:00:00Z' for i in range(start_hour, end_hour)]
MutInclusive_accepted_times == {i \in 0..23 : start_hour <= i /\ i <= end_hour}
accepted_times == {i \in 0..23 : start_hour <= i /\ i < end_hour}

RECURSIVE sum(_)
sum(list) == IF Len(list) = 0 THEN 0 ELSE Head(list) + sum(Tail(list))

\* sum(list)/len(list), for a non-empty list
Mean(list) == [num |-> sum(list), den |-> Len(list)]
Zero == [num |-> 0, den |-> 1]
RatAdd(a, b) == [num |-> a.num * b.den + b.num * a.den, den |-> a.den * b.den]
RatEq(a, b) == a.num * b.den = b.num * a.den
RatGt(a, n) == a.num > n * a.den
RatLt(a, n) == a.num < n * a.den

\* lambda: {'date': None, 'vis_avg': 0, 'cover_avg': 0}
DefaultEntry(k) == [key |-> k, date |-> NoDay, vis_avg |-> Zero, cover_avg |-> Zero]
HasKey(sd, k) == \E i \in 1..Len(sd) : sd[i].key = k
KeyIndex(sd, k) == CHOOSE i \in 1..Len(sd) : sd[i].key = k
\* sky_dict[k]: a missing key is inserted, at the end, with the default entry
Touch(sd, k) == IF HasKey(sd, k) THEN sd ELSE Append(sd, DefaultEntry(k))

\* sky_dict[day_key]['date'] = day_key
SetDate(sd, k) ==
    LET sd1 == Touch(sd, k)
    IN  [sd1 EXCEPT ![KeyIndex(sd1, k)].date = k]

\* sky_dict[prev_day]['vis_avg'] = sum(vis_list)/len(vis_list)
\* sky_dict[prev_day]['cover_avg'] += sum(cover_list)/len(cover_list)
Finalize(sd, k, vl, cl) ==
    LET sd1 == Touch(sd, k)
        i == KeyIndex(sd1, k)
    IN  [sd1 EXCEPT ![i].vis_avg = Mean(vl),
                    ![i].cover_avg = RatAdd(@, Mean(cl))]

\* list(sky_dict.values())
Values(sd) == [i \in 1..Len(sd) |-> [date |-> sd[i].date, vis_avg |-> sd[i].vis_avg,
                                      cover_avg |-> sd[i].cover_avg]]

(***************************************************************************)
(* The weather provider's response and its extraction.                     *)
(***************************************************************************)
\* response.json()['timelines']['hourly'] for the samples the provider returns
Response(samples) ==
    List([i \in 1..Len(samples) |->
            Dict(<< <<"time", Scalar(samples[i].time)>>,
                    <<"values", Dict(<< <<"cloudCover", Scalar(samples[i].cloudCover)>>,
                                        <<"visibility", Scalar(samples[i].visibility)>> >>)>> >>)])

Min3(a, b, c) == IF a <= b /\ a <= c THEN a ELSE IF b <= c THEN b ELSE c
\* list(zip(time, vis, cover)) of the extracted nodes
Zip(time, vis, cover) ==
    [i \in 1..Min3(Len(time), Len(vis), Len(cover)) |-> <<time[i].v, vis[i].v, cover[i].v>>]

(***************************************************************************)
(* The conditions of find_stargazing_dates and handler.                    *)
(***************************************************************************)
\* value >= illum_threshold
IsNewMoon(value) == value >= illum_threshold

\* len(new_moons) > 0
MutAlways_ShouldFetch(nm) == Len(nm) >= 0
ShouldFetch(nm) == Len(nm) > 0

\* day['vis_avg'] > vis_threshold and day['cover_avg'] < cover_threshold
MutNonStrict_Qualifies(day) ==
    ~RatLt(day.vis_avg, vis_threshold) /\ ~RatGt(day.cover_avg, cover_threshold)
Qualifies(day) == RatGt(day.vis_avg, vis_threshold) /\ RatLt(day.cover_avg, cover_threshold)

\* len(forecast) > 0
MutAlways_ShouldNotify(forecast) == Len(forecast) >= 0
ShouldNotify(forecast) == Len(forecast) > 0

InSeq(x, s) == \E i \in 1..Len(s) : s[i] = x

\* the loop `for day in sky`, from position i on
RECURSIVE SelectDates(_, _, _, _)
SelectDates(days, dates, acc, i) ==
    IF i > Len(days) THEN acc
    ELSE SelectDates(days, dates,
                     IF InSeq(days[i].date, dates) /\ Qualifies(days[i])
                     THEN Append(acc, days[i].date) ELSE acc,
                     i + 1)

(***************************************************************************)
(* Inputs: the illumination series and the provider's hourly timelines.    *)
(***************************************************************************)
HourSeq == <<6, 12, 13>>            \* the hours of day a timeline may sample
Readings == {<<30, 2>>, <<10, 8>>}  \* <<visibility, cloudCover>> of a sample
Slots == 1..(MaxDays * Len(HourSeq))
SlotTime(i) == [date |-> (i - 1) \div Len(HourSeq),
                tod |-> HourSeq[((i - 1) % Len(HourSeq)) + 1]]
Sample(ts, r) == [time |-> ts, visibility |-> r[1], cloudCover |-> r[2]]

\* the samples at the slots S, in chronological order, with the readings f
RECURSIVE TimelineOf(_, _)
TimelineOf(S, f) ==
    IF S = {} THEN <<>>
    ELSE LET m == CHOOSE x \in S : \A y \in S : x <= y
         IN  <<Sample(SlotTime(m), f[m])>> \o TimelineOf(S \ {m}, f)

SlotSets == {T \in SUBSET Slots : Cardinality(T) <= MaxSamples}

At(d, h) == [date |-> d, tod |-> h]
\* dates 0, 1 and 5 are finalized with averages (25,3), (18,2) and (30,10)
ScenarioATimeline ==
    << Sample(At(0, 6), <<25, 3>>),
       Sample(At(1, 6), <<40, 9>>), Sample(At(1, 7), <<18, 2>>),
       Sample(At(5, 6), <<40, 9>>), Sample(At(5, 7), <<30, 10>>),
       Sample(At(6, 6), <<40, 9>>) >>
\* dates 0..3 finalized: clear, on both thresholds, clear, overcast
MixedTimeline ==
    << Sample(At(0, 6), <<30, 2>>),
       Sample(At(1, 6), <<10, 8>>), Sample(At(1, 7), <<30, 2>>), Sample(At(1, 8), <<10, 8>>),
       Sample(At(2, 6), <<10, 8>>), Sample(At(2, 7), <<30, 2>>),
       Sample(At(3, 6), <<30, 2>>), Sample(At(3, 7), <<10, 8>>),
       Sample(At(4, 6), <<30, 2>>) >>
\* a timeline that is not in chronological order
UnorderedTimeline ==
    << Sample(At(1, 6), <<30, 2>>), Sample(At(0, 6), <<10, 8>>),
       Sample(At(1, 7), <<10, 8>>), Sample(At(0, 7), <<30, 2>>),
       Sample(At(2, 13), <<30, 2>>), Sample(At(3, 6), <<30, 2>>),
       Sample(At(1, 8), <<30, 2>>), Sample(At(4, 6), <<10, 8>>) >>
FixtureTimelines == {ScenarioATimeline, MixedTimeline, UnorderedTimeline}

ScenarioAIllum == <<1, 2, 50, 80, 99, 10>>
IllumSeries == [1..MoonDays -> {1, 2, 50}] \cup {ScenarioAIllum}
FewIllumSeries == {[i \in 1..MoonDays |-> 2], [i \in 1..MoonDays |-> 1]}

(***************************************************************************)
(* Enumerated JSON structures, two levels of containers deep.              *)
(***************************************************************************)
Keys == {"time", "visibility"}
Scalars == {Scalar(1), Scalar(2)}
SeqsUpTo(S, n) == UNION {[1..m -> S] : m \in 0..n}
DistinctKeys(items) == \A i, j \in 1..Len(items) : i # j => items[i][1] # items[j][1]
Containers(S) ==
    {Dict(items) : items \in {q \in SeqsUpTo(Keys \X S, MaxWidth) : DistinctKeys(q)}}
    \cup {List(elems) : elems \in SeqsUpTo(S, MaxWidth)}
Level1 == Scalars \cup Containers(Scalars)

(***************************************************************************)
(* The run of handler.                                                     *)
(***************************************************************************)
PipelineIdle ==
    /\ pc = "idle" /\ error = "" /\ net_calls = <<>> /\ printed = FALSE
    /\ moon = [date |-> <<>>, illum |-> <<>>]
    /\ new_moons = <<>> /\ new_moon_dates = <<>> /\ sky = <<>> /\ stargazing_dates = <<>>
    /\ sky_list = <<>> /\ idx = 0
    /\ first_day = NoDay /\ prev_day = NoDay /\ target_day = NoDay
    /\ vis_list = <<>> /\ cover_list = <<>> /\ sky_dict = <<>>

ExtractIdle ==
    /\ x_obj = Scalar(0) /\ x_key = "" /\ x_values = <<>> /\ x_pc = "idle"

Init ==
    /\ \/ illum \in IllumSeries /\ hourly \in FixtureTimelines
       \/ /\ illum \in FewIllumSeries
          /\ \E S \in SlotSets : \E f \in [S -> Readings] : hourly = TimelineOf(S, f)
    /\ pc = "start" /\ error = "" /\ net_calls = <<>> /\ printed = FALSE
    /\ moon = [date |-> <<>>, illum |-> <<>>]
    /\ new_moons = <<>> /\ new_moon_dates = <<>> /\ sky = <<>> /\ stargazing_dates = <<>>
    /\ sky_list = <<>> /\ idx = 0
    /\ first_day = NoDay /\ prev_day = NoDay /\ target_day = NoDay
    /\ vis_list = <<>> /\ cover_list = <<>> /\ sky_dict = <<>>
    /\ ExtractIdle

sky_locals == <<sky_list, idx, first_day, prev_day, target_day, vis_list, cover_list, sky_dict>>
inputs == <<illum, hourly>>

\* moon = get_5_day_moon_forecast(): today and the five days after it
get_5_day_moon_forecast ==
    /\ pc = "start"
    /\ moon' = [date |-> [i \in 1..MoonDays |-> i - 1], illum |-> illum]
    /\ pc' = "filter"
    /\ UNCHANGED <<inputs, error, net_calls, printed, new_moons, new_moon_dates, sky,
                   stargazing_dates, sky_locals, extract_vars>>

\* new_moons, new_moon_dates, stargazing_dates = [] and the test len(new_moons) > 0
filter_new_moons ==
    /\ pc = "filter"
    /\ LET nm == SelectSeq([i \in 1..Len(moon.illum) |-> i - 1],
                           LAMBDA index : IsNewMoon(moon.illum[index + 1]))
       IN  /\ new_moons' = nm
           /\ new_moon_dates' = [j \in 1..Len(nm) |-> moon.date[nm[j] + 1]]
           /\ pc' = IF ShouldFetch(nm) THEN "fetch" ELSE "return"
    /\ stargazing_dates' = <<>>
    /\ UNCHANGED <<inputs, error, net_calls, printed, moon, sky, sky_locals, extract_vars>>

\* get_5_day_sky_forecast up to its for loop: the GET, the extraction, time[0]
sky_fetch ==
    /\ pc = "fetch"
    /\ net_calls' = Append(net_calls, "GET")
    /\ LET time == json_extract(Response(hourly), "time")
           vis == json_extract(Response(hourly), "visibility")
           cover == json_extract(Response(hourly), "cloudCover")
       IN  IF Len(time) = 0
           THEN /\ pc' = "raised" /\ error' = "IndexError"
                /\ UNCHANGED sky_locals
           ELSE /\ first_day' = split(time[1].v)[1]
                /\ prev_day' = NoDay /\ target_day' = NoDay
                /\ vis_list' = <<>> /\ cover_list' = <<>>
                /\ sky_dict' = <<>>
                /\ sky_list' = Zip(time, vis, cover)
                /\ idx' = 1
                /\ pc' = "loop" /\ UNCHANGED error
    /\ UNCHANGED <<inputs, printed, moon, new_moons, new_moon_dates, sky,
                   stargazing_dates, extract_vars>>

\* one round of `for timestamp in sky_list`
sky_loop_step ==
    /\ pc = "loop" /\ idx <= Len(sky_list)
    /\ LET day == sky_list[idx][1]
           vis == sky_list[idx][2]
           cover == sky_list[idx][3]
           day_key == split(day)[1]
       IN  IF split(day)[2] \notin accepted_times
           THEN /\ idx' = idx + 1
                /\ UNCHANGED <<pc, error, prev_day, target_day, vis_list, cover_list, sky_dict>>
           ELSE IF day_key = target_day \/ day_key = first_day
           THEN /\ sky_dict' = SetDate(sky_dict, day_key)
                /\ vis_list' = Append(vis_list, vis)
                /\ cover_list' = Append(cover_list, cover)
                /\ prev_day' = day_key
                /\ idx' = idx + 1
                /\ UNCHANGED <<pc, error, target_day>>
           ELSE IF Len(vis_list) = 0
           THEN /\ sky_dict' = SetDate(sky_dict, day_key)
                /\ pc' = "raised" /\ error' = "ZeroDivisionError"
                /\ UNCHANGED <<idx, prev_day, target_day, vis_list, cover_list>>
           ELSE /\ sky_dict' = Finalize(SetDate(sky_dict, day_key), prev_day,
                                        vis_list, cover_list)
                /\ vis_list' = <<>> /\ cover_list' = <<>>
                /\ target_day' = day_key
                /\ idx' = idx + 1
                /\ UNCHANGED <<pc, error, prev_day>>
    /\ UNCHANGED <<inputs, net_calls, printed, moon, new_moons, new_moon_dates, sky,
                   stargazing_dates, sky_list, first_day, extract_vars>>

\* the loop is over: sky = list(sky_dict.values())
sky_return ==
    /\ pc = "loop" /\ idx > Len(sky_list)
    /\ sky' = Values(sky_dict)
    /\ pc' = "select"
    /\ UNCHANGED <<inputs, error, net_calls, printed, moon, new_moons, new_moon_dates,
                   stargazing_dates, sky_locals, extract_vars>>

\* for day in sky: ...; return stargazing_dates
select_dates ==
    /\ pc = "select"
    /\ stargazing_dates' = SelectDates(sky, new_moon_dates, stargazing_dates, 1)
    /\ pc' = "return"
    /\ UNCHANGED <<inputs, error, net_calls, printed, moon, new_moons, new_moon_dates,
                   sky, sky_locals, extract_vars>>

\* handler: if len(forecast) > 0: ... send_notification(message)
handler_notify ==
    /\ pc = "return" /\ ShouldNotify(stargazing_dates)
    /\ net_calls' = Append(net_calls, "POST")
    /\ pc' = "done"
    /\ UNCHANGED <<inputs, error, printed, moon, new_moons, new_moon_dates, sky,
                   stargazing_dates, sky_locals, extract_vars>>

\* handler: else: print('No upcoming stargazing dates!')
handler_print ==
    /\ pc = "return" /\ ~ShouldNotify(stargazing_dates)
    /\ printed' = TRUE
    /\ pc' = "done"
    /\ UNCHANGED <<inputs, error, net_calls, moon, new_moons, new_moon_dates, sky,
                   stargazing_dates, sky_locals, extract_vars>>

Next ==
    \/ get_5_day_moon_forecast
    \/ filter_new_moons
    \/ sky_fetch
    \/ sky_loop_step
    \/ sky_return
    \/ select_dates
    \/ handler_notify
    \/ handler_print

Spec == Init /\ [][Next]_vars

(***************************************************************************)
(* A call of json_extract on an enumerated structure.                      *)
(***************************************************************************)
InitExtract ==
    /\ \/ x_obj \in Level1
       \/ \E m \in 0..MaxWidth : \E items \in [1..m -> Keys \X Level1] :
              DistinctKeys(items) /\ x_obj = Dict(items)
       \/ \E m \in 0..MaxWidth : \E elems \in [1..m -> Level1] : x_obj = List(elems)
    /\ x_key \in Keys
    /\ x_values = <<>> /\ x_pc = "call"
    /\ illum = <<>> /\ hourly = <<>>
    /\ PipelineIdle

json_extract_call ==
    /\ x_pc = "call"
    /\ x_values' = json_extract(x_obj, x_key)
    /\ x_pc' = "returned"
    /\ UNCHANGED <<x_obj, x_key, pipeline_vars>>

NextExtract == json_extract_call

SpecExtract == InitExtract /\ [][NextExtract]_vars

(***************************************************************************)
(* Vocabulary of the properties.                                           *)
(***************************************************************************)
InWindow(s) == start_hour <= s.time.tod /\ s.time.tod < end_hour
\* the in-window samples of calendar date d, in timeline order
InWindowOf(d) == SelectSeq(hourly, LAMBDA s : s.time.date = d /\ InWindow(s))
VisOf(samples) == [i \in 1..Len(samples) |-> samples[i].visibility]
CoverOf(samples) == [i \in 1..Len(samples) |-> samples[i].cloudCover]
InWindowDates == {hourly[i].time.date : i \in {j \in 1..Len(hourly) : InWindow(hourly[j])}}
FirstInWindow(d) == CHOOSE i \in 1..Len(hourly) :
    /\ hourly[i].time.date = d /\ InWindow(hourly[i])
    /\ \A j \in 1..(i - 1) : ~(hourly[j].time.date = d /\ InWindow(hourly[j]))
Fetched == InSeq("GET", net_calls)
\* get_5_day_sky_forecast has returned to find_stargazing_dates
SkyReturned == Fetched /\ pc \in {"select", "return", "done"}
\* find_stargazing_dates has returned to handler
SelectorReturned == pc \in {"return", "done"}
MoonKnown == Len(moon.illum) = MoonDays
\* the timeline is in strictly increasing order of time
Chronological ==
    \A i, j \in 1..Len(hourly) :
        i < j => \/ hourly[i].time.date < hourly[j].time.date
                 \/ /\ hourly[i].time.date = hourly[j].time.date
                    /\ hourly[i].time.tod < hourly[j].time.tod
Count(x, s) == Cardinality({i \in 1..Len(s) : s[i] = x})

(***************************************************************************)
(* C1: the aggregation never raises a division-by-zero fault, whatever the *)
(* samples: a calendar day with no in-window sample is skipped.            *)
(***************************************************************************)
C1_NoDivisionFault == error # "ZeroDivisionError"

(***************************************************************************)
(* C2: for a chronological timeline, every SkyDay finalized on a day       *)
(* change (every returned SkyDay but the last) has vis_avg and cover_avg   *)
(* equal to the means over ALL in-window samples of its calendar date.     *)
(***************************************************************************)
C2_DayChangeAveragesAllSamples ==
    (SkyReturned /\ Chronological) =>
        \A i \in 1..(Len(sky) - 1) :
            LET all == InWindowOf(sky[i].date)
            IN  /\ Len(all) > 0
                /\ RatEq(sky[i].vis_avg, Mean(VisOf(all)))
                /\ RatEq(sky[i].cover_avg, Mean(CoverOf(all)))

(***************************************************************************)
(* C3: find_stargazing_dates returns exactly the dates of the SkyDay       *)
(* sequence that are the date of a LunarDay with illumination >=           *)
(* illum_threshold and whose SkyDay has vis_avg > vis_threshold and        *)
(* cover_avg < cover_threshold, in SkyDay order, each at most once.        *)
(***************************************************************************)
C3_Selected(i) ==
    /\ \E j \in 1..Len(moon.date) :
           moon.date[j] = sky[i].date /\ moon.illum[j] >= illum_threshold
    /\ sky[i].vis_avg.num > vis_threshold * sky[i].vis_avg.den
    /\ sky[i].cover_avg.num < cover_threshold * sky[i].cover_avg.den

NoLunarDayMeets ==
    MoonKnown /\ \A j \in 1..MoonDays : ~(moon.illum[j] >= illum_threshold)

HasSkyDay(d, v, c) ==
    \E i \in 1..Len(sky) :
        /\ sky[i].date = d
        /\ RatEq(sky[i].vis_avg, [num |-> v, den |-> 1])
        /\ RatEq(sky[i].cover_avg, [num |-> c, den |-> 1])

ScenarioA ==
    /\ SelectorReturned
    /\ moon.illum = ScenarioAIllum
    /\ HasSkyDay(0, 25, 3) /\ HasSkyDay(1, 18, 2) /\ HasSkyDay(5, 30, 10)
    /\ \A i \in 1..Len(sky) : sky[i].date \in {0, 1, 5} \/ ~InSeq(sky[i].date, moon.date)

C5_ScenarioA ==
    ScenarioA =>
        /\ {new_moon_dates[i] : i \in 1..Len(new_moon_dates)} = {0, 1, 5}
        /\ stargazing_dates = <<0>>

(***************************************************************************)
(* C6: scenario B.  When every LunarDay has illumination above             *)
(* illum_threshold, the selector returns the empty sequence and the sky    *)
(* forecast is never fetched.                                              *)
(***************************************************************************)
AllAboveThreshold ==
    MoonKnown /\ \A j \in 1..MoonDays : moon.illum[j] > illum_threshold

C6_ScenarioB == AllAboveThreshold => ~Fetched /\ stargazing_dates = <<>>

(***************************************************************************)
(* C8: a run of handler issues the notification POST exactly once when the *)
(* selector's result is non-empty and never when it is empty (it then      *)
(* prints the log line); there are at most two network calls, at most one  *)
(* weather fetch and one POST, and the POST never precedes the fetch.      *)
(***************************************************************************)
C8_NetworkCalls ==
    /\ net_calls \in {<<>>, <<"GET">>, <<"GET", "POST">>}
    /\ printed => Count("POST", net_calls) = 0
    /\ pc = "done" =>
           /\ Len(stargazing_dates) > 0 => Count("POST", net_calls) = 1 /\ ~printed
           /\ Len(stargazing_dates) = 0 => Count("POST", net_calls) = 0 /\ printed
    /\ pc # "done" => Count("POST", net_calls) = 0

C8_Witness == pc = "done" /\ net_calls = <<"GET", "POST">> /\ Len(stargazing_dates) > 0

(***************************************************************************)
(* C9: whenever get_5_day_sky_forecast returns, its output holds exactly   *)
(* one SkyDay per calendar date that has an in-window sample, in the order *)
(* those dates were first encountered, and no other record.                *)
(***************************************************************************)
C9_OneSkyDayPerDate ==
    SkyReturned =>
        /\ {sky[i].date : i \in 1..Len(sky)} = InWindowDates
        /\ \A i, k \in 1..Len(sky) : i # k => sky[i].date # sky[k].date
        /\ \A i, k \in 1..Len(sky) :
               i < k => FirstInWindow(sky[i].date) < FirstInWindow(sky[k].date)

\* two SkyDays returned, and a sampled date without any in-window sample
C9_Witness ==
    /\ SkyReturned
    /\ Len(sky) >= 2
    /\ \E i \in 1..Len(hourly) : hourly[i].time.date \notin InWindowDates

(***************************************************************************)
(* C10: when the loop ends the last accumulating day is finalized too: its *)
(* vis_avg and cover_avg are the means of its accumulated samples.         *)
(***************************************************************************)
C10_LastDayFinalized ==
    (SkyReturned /\ Len(sky) > 0 /\ Len(vis_list) > 0) =>
        /\ RatEq(sky[Len(sky)].vis_avg, Mean(vis_list))
        /\ RatEq(sky[Len(sky)].cover_avg, Mean(cover_list))

(***************************************************************************)
(* C7: json_extract and the values stored under a key.  A position in a    *)
(* structure is the path of item indices leading to it; depth-first        *)
(* encounter order is the lexicographic order of the paths, a container    *)
(* before what it holds.                                                   *)
(***************************************************************************)
RECURSIVE Paths(_)
Paths(n) ==
    UNION {{<<i>>} \cup {<<i>> \o p : p \in Paths(n.items[i][2])} : i \in 1..Len(n.items)}

RECURSIVE ParentAt(_, _)
ParentAt(n, p) == IF Len(p) = 1 THEN n ELSE ParentAt(n.items[p[1]][2], Tail(p))
ValueAt(n, p) == ParentAt(n, p).items[p[Len(p)]][2]
StoredUnder(n, p, key) ==
    ParentAt(n, p).t = "d" /\ ParentAt(n, p).items[p[Len(p)]][1] = key

Before(p, q) ==
    \/ Len(p) < Len(q) /\ \A j \in 1..Len(p) : p[j] = q[j]
    \/ \E i \in 1..Len(p) :
           /\ i <= Len(q)
           /\ \A j \in 1..(i - 1) : p[j] = q[j]
           /\ p[i] < q[i]

RECURSIVE InOrder(_)
InOrder(S) ==
    IF S = {} THEN <<>>
    ELSE LET m == CHOOSE p \in S : \A q \in S \ {p} : Before(p, q)
         IN  <<m>> \o InOrder(S \ {m})

ValuesAt(n, S) == LET ps == InOrder(S) IN [i \in 1..Len(ps) |-> ValueAt(n, ps[i])]

KeyPaths == {p \in Paths(x_obj) : StoredUnder(x_obj, p, x_key)}
ScalarKeyPaths == {p \in KeyPaths : ValueAt(x_obj, p).t = "s"}

====
